---- MODULE Spec2Model ----
(***************************************************************************)
(* fgshell, src/ptctl.c: six forwarding functions over the POSIX job       *)
(* control primitives tcsetpgrp, tcgetpgrp, setpgid, getpgrp, getpgid and  *)
(* the thread-local errno.                                                 *)
(*                                                                         *)
(* The functions hold no state of their own.  The state they act on is the *)
(* kernel's process table and terminal, and the calling thread's errno.    *)
(* The primitives are modelled after their POSIX.1-2017 descriptions:      *)
(* where POSIX leaves an outcome open (which of several applicable errors  *)
(* is reported, the value of errno after a successful call, the value      *)
(* tcgetpgrp reports when the terminal has no foreground group) the model  *)
(* takes every permitted outcome.  Whether a child has already called exec *)
(* is invisible to its parent: setpgid on a live child may fail with       *)
(* EACCES at any time.                                                     *)
(*                                                                         *)
(* Not modelled: signals (a background caller of tcsetpgrp is assumed to   *)
(* ignore or block SIGTTOU, as a job-control shell does), and what the     *)
(* host runtime does between two calls through its foreign-function        *)
(* interface.                                                              *)
(***************************************************************************)
EXTENDS Integers, FiniteSets

(* ------------------------------------------------------------------ *)
(* errno.h (ptctl.c line 3): the codes the five primitives report.    *)
(* ------------------------------------------------------------------ *)
EPERM == 1
ESRCH == 3
EBADF == 9
EACCES == 13
EINVAL == 22
ENOTTY == 25
Codes == {EPERM, ESRCH, EBADF, EACCES, EINVAL, ENOTTY}

(* ------------------------------------------------------------------ *)
(* The processes, descriptors and threads of the model.               *)
(* ------------------------------------------------------------------ *)
\* Children the calling process may have forked.
MaxChildren == 1
\* The calling process (the process getpgrp() reports on).
Self == 2
\* The process that started the shell, a session leader; not a child of Self.
Leader == Self - 1
Children == (Self + 1)..(Self + MaxChildren)
\* A pid that names no process, ever.
NoPid == Self + MaxChildren + 1
Procs == {Leader, Self} \cup Children
\* pid arguments: 0 (the caller itself), every process, a nonexistent pid.
PidArgs == {0, NoPid} \cup Procs
\* pgid / pgrp arguments: a negative value, 0, every id a group can have.
PgidArgs == {-1, 0} \cup Procs
\* The caller's descriptors: 0 is its controlling terminal, 3 another
\* terminal (not its controlling one), 7 is closed.
Fds == {0, 3, 7}
Terms == {"ctty", "other"}
Threads == {"t1", "t2"}

VARIABLES
  pgid,    \* kernel: process -> its process-group id, 0 when no such process
  sid,     \* kernel: process -> its session id
  fg,      \* kernel: terminal -> its foreground process-group id
  errno,   \* thread -> the thread's errno
  last,    \* the call completed most recently: [op, t, ret]
  armed,   \* observer: the get call that would read back the set call
           \*   that was the latest step, and the value that call set
  scen,    \* observer: the latest call read back the set call just before
           \*   it (then this is that armed record), or was get_errno
           \*   right after the thread's call with an invalid argument
  pend,    \* observer: thread -> code left by its latest failing call, 0 once
           \*   another call of the thread other than get_errno succeeded
  inv,     \* observer: thread -> its latest call was a fallible one with a
           \*   closed descriptor or a nonexistent pid
  sticky   \* observer: thread -> code left by its latest failing call, ever

observer == <<armed, scen, pend, inv, sticky>>
vars == <<pgid, sid, fg, errno, last, armed, scen, pend, inv, sticky>>

NoCall == [op |-> "none", t |-> "t1", ret |-> 0]
NoArm == [op |-> "none", a |-> 0, b |-> 0]

(* ------------------------------------------------------------------ *)
(* Kernel helpers.                                                    *)
(* ------------------------------------------------------------------ *)
Live(pg) == {p \in Procs : pg[p] # 0}
\* The process groups that exist in session s.
SessionGroups(pg, s) == {pg[p] : p \in {q \in Live(pg) : sid[q] = s}}
AllGroups(pg) == {pg[p] : p \in Live(pg)}
\* What a descriptor of the caller refers to.
FdTerm(fd) ==
  CASE fd = 0 -> "ctty"
    [] fd = 3 -> "other"
    [] OTHER -> "closed"
\* The process a pid argument names: 0 is the caller.
Target(pid) == IF pid = 0 THEN Self ELSE pid

(* An outcome of a primitive: the value returned, the kernel state and the
   thread's errno after it. *)
\* A successful call: POSIX leaves errno unspecified after success, so it
\* keeps its value or holds any code (never 0: no function sets errno to 0).
Ok(t, r, pg, f) ==
  {[ret |-> r, pgid |-> pg, fg |-> f, errno |-> e] : e \in {errno[t]} \cup Codes}
\* A failing call: -1, nothing changed, errno one of the applicable errors.
Fail(errs) ==
  {[ret |-> -1, pgid |-> pgid, fg |-> fg, errno |-> e] : e \in errs}

(* ------------------------------------------------------------------ *)
(* The POSIX primitives the functions forward to.                     *)
(* ------------------------------------------------------------------ *)
tcsetpgrp_errors(fd, pgrp) ==
  (IF FdTerm(fd) = "closed" THEN {EBADF} ELSE {})
  \cup (IF FdTerm(fd) = "other" THEN {ENOTTY} ELSE {})
  \cup (IF pgrp < 0 THEN {EINVAL} ELSE {})
  \cup (IF pgrp >= 0 /\ pgrp \notin SessionGroups(pgid, sid[Self])
        THEN {EPERM} ELSE {})

tcsetpgrp(t, fd, pgrp) ==
  IF tcsetpgrp_errors(fd, pgrp) # {}
  THEN Fail(tcsetpgrp_errors(fd, pgrp))
  ELSE Ok(t, 0, pgid, [fg EXCEPT ![FdTerm(fd)] = pgrp])

tcgetpgrp_errors(fd) ==
  (IF FdTerm(fd) = "closed" THEN {EBADF} ELSE {})
  \cup (IF FdTerm(fd) = "other" THEN {ENOTTY} ELSE {})

\* With no foreground group, tcgetpgrp reports a value greater than 1 that
\* is the id of no existing process group.
tcgetpgrp(t, fd) ==
  IF tcgetpgrp_errors(fd) # {}
  THEN Fail(tcgetpgrp_errors(fd))
  ELSE IF fg[FdTerm(fd)] \in AllGroups(pgid)
  THEN Ok(t, fg[FdTerm(fd)], pgid, fg)
  ELSE UNION {Ok(t, g, pgid, fg) : g \in (2..NoPid) \ AllGroups(pgid)}

\* The errors that apply for certain.
setpgid_errors(pid, pgid_) ==
  LET p == Target(pid)
      g == IF pgid_ = 0 THEN p ELSE pgid_
      known == p = Self \/ (p \in Children /\ pgid[p] # 0)
  IN (IF pgid_ < 0 THEN {EINVAL} ELSE {})
     \cup (IF ~known THEN {ESRCH} ELSE {})
     \cup (IF known /\ (sid[p] = p \/ sid[p] # sid[Self]) THEN {EPERM} ELSE {})
     \cup (IF known /\ pgid_ >= 0 /\ g # p
              /\ g \notin SessionGroups(pgid, sid[Self])
           THEN {EPERM} ELSE {})

setpgid(t, pid, pgid_) ==
  LET p == Target(pid)
      g == IF pgid_ = 0 THEN p ELSE pgid_
      race == IF p \in Children /\ pgid[p] # 0 THEN {EACCES} ELSE {}
  IN IF setpgid_errors(pid, pgid_) # {}
     THEN Fail(setpgid_errors(pid, pgid_) \cup race)
     ELSE Ok(t, 0, [pgid EXCEPT ![p] = g], fg) \cup Fail(race)

\* getpgrp always succeeds.
getpgrp(t) == Ok(t, pgid[Self], pgid, fg)

\* An implementation may refuse to report on a process of another session.
getpgid(t, pid) ==
  LET p == Target(pid)
  IN IF p \notin Live(pgid)
     THEN Fail({ESRCH})
     ELSE IF sid[p] # sid[Self]
     THEN Ok(t, pgid[p], pgid, fg) \cup Fail({EPERM})
     ELSE Ok(t, pgid[p], pgid, fg)

(* ------------------------------------------------------------------ *)
(* ptctl.c: each function returns what its primitive returns.         *)
(* ------------------------------------------------------------------ *)
\* `return f(args);`: the primitive's outcome becomes the state, its
\* value the value returned to the caller on thread t.
\* Variant: errno kept in one variable of the process, not per thread.
Return_global_errno(t, op, outs) ==
  \E o \in outs :
    /\ pgid' = o.pgid
    /\ fg' = o.fg
    /\ errno' = [u \in Threads |-> o.errno]
    /\ last' = [op |-> op, t |-> t, ret |-> o.ret]
    /\ UNCHANGED sid

Return(t, op, outs) ==
  \E o \in outs :
    /\ pgid' = o.pgid
    /\ fg' = o.fg
    /\ errno' = [errno EXCEPT ![t] = o.errno]
    /\ last' = [op |-> op, t |-> t, ret |-> o.ret]
    /\ UNCHANGED sid

\* Variant: a failure reported as the negated code, as a system call does.
ptctl_tcsetpgrp_negcode(t, fd, pgrp) ==
  Return(t, "tcsetpgrp",
         {[o EXCEPT !.ret = IF o.ret = -1 THEN -o.errno ELSE o.ret] :
            o \in tcsetpgrp(t, fd, pgrp)})

ptctl_tcsetpgrp(t, fd, pgrp) ==
  Return(t, "tcsetpgrp", tcsetpgrp(t, fd, pgrp))

\* Variant: the status of the underlying ioctl returned, not the group.
ptctl_tcgetpgrp_status(t, fd) ==
  Return(t, "tcgetpgrp",
         {[o EXCEPT !.ret = IF o.ret = -1 THEN -1 ELSE 0] : o \in tcgetpgrp(t, fd)})

ptctl_tcgetpgrp(t, fd) ==
  Return(t, "tcgetpgrp", tcgetpgrp(t, fd))

\* Variant: the call is made and its result dropped.
ptctl_setpgid_dropped(t, pid, pgid_) ==
  Return(t, "setpgid", {[o EXCEPT !.ret = -1] : o \in setpgid(t, pid, pgid_)})

\* Variant: pid 0 is rejected before the primitive is called.
ptctl_setpgid_validating(t, pid, pgid_) ==
  Return(t, "setpgid",
         IF pid = 0 THEN Fail({EINVAL}) ELSE setpgid(t, pid, pgid_))

ptctl_setpgid(t, pid, pgid_) ==
  Return(t, "setpgid", setpgid(t, pid, pgid_))

\* Variant: the group the process started in, remembered.
ptctl_getpgrp_cached(t) ==
  Return(t, "getpgrp", Ok(t, sid[Self], pgid, fg))

ptctl_getpgrp(t) ==
  Return(t, "getpgrp", getpgrp(t))

\* Variant: the argument ignored, the caller's own group reported.
ptctl_getpgid_own(t, pid) ==
  Return(t, "getpgid", getpgid(t, 0))

\* Variant: the body of ptctl_setpgid pasted, with pgid 0.
ptctl_getpgid_pasted(t, pid) ==
  Return(t, "getpgid", setpgid(t, pid, 0))

ptctl_getpgid(t, pid) ==
  Return(t, "getpgid", getpgid(t, pid))

\* Variant: no code is ever reported.
ptctl_get_errno_zero(t) ==
  /\ last' = [op |-> "get_errno", t |-> t, ret |-> 0]
  /\ UNCHANGED <<pgid, sid, fg, errno>>

\* Variant: the code is reported as a truth value.
ptctl_get_errno_flag(t) ==
  /\ last' = [op |-> "get_errno", t |-> t, ret |-> IF errno[t] = 0 THEN 0 ELSE 1]
  /\ UNCHANGED <<pgid, sid, fg, errno>>

\* `return errno;`: a read of the thread's errno, no library call.
ptctl_get_errno(t) ==
  /\ last' = [op |-> "get_errno", t |-> t, ret |-> errno[t]]
  /\ UNCHANGED <<pgid, sid, fg, errno>>

(* ------------------------------------------------------------------ *)
(* What other processes do to the kernel state meanwhile.             *)
(* ------------------------------------------------------------------ *)
\* The caller forks c: the child inherits the caller's group and session.
Fork(c) ==
  /\ pgid[c] = 0
  /\ pgid' = [pgid EXCEPT ![c] = pgid[Self]]
  /\ last' = NoCall
  /\ UNCHANGED <<sid, fg, errno>>

\* The child terminates and is reaped: its pid names no process.
ChildExit(c) ==
  /\ pgid[c] # 0
  /\ pgid' = [pgid EXCEPT ![c] = 0]
  /\ last' = NoCall
  /\ UNCHANGED <<sid, fg, errno>>

Environment ==
  \E c \in Children : Fork(c) \/ ChildExit(c)

(* ------------------------------------------------------------------ *)
(* Observers: what the latest calls were, kept for the properties.    *)
(* They read the program's state and never write it.                  *)
(* ------------------------------------------------------------------ *)
Fallible == {"tcsetpgrp", "tcgetpgrp", "setpgid", "getpgid"}
\* The call's argument is a closed descriptor or names no process.
Invalid(op, a) ==
  \/ op \in {"tcsetpgrp", "tcgetpgrp"} /\ FdTerm(a) = "closed"
  \/ op \in {"setpgid", "getpgid"} /\ Target(a) \notin Live(pgid)

\* Thread t has just completed op(a, b); m says which observers run.
Observe(m, t, op, a, b) ==
  LET failed == op # "get_errno" /\ last'.ret = -1
  IN /\ armed' = IF m.pairs /\ op = "setpgid" /\ last'.ret = 0
                   THEN [op |-> "getpgid", a |-> a, b |-> b]
                 ELSE IF m.pairs /\ op = "tcsetpgrp" /\ last'.ret = 0
                   THEN [op |-> "tcgetpgrp", a |-> a, b |-> b]
                 ELSE NoArm
     /\ scen' = IF armed.op = op /\ armed.a = a THEN armed
                ELSE IF op = "get_errno" /\ inv[t]
                  THEN [op |-> "invalid_errno", a |-> 0, b |-> 0]
                ELSE NoArm
     /\ pend' = IF ~m.codes \/ op = "get_errno" THEN pend
                ELSE [pend EXCEPT ![t] = IF failed THEN errno'[t] ELSE 0]
     /\ inv' = IF ~m.codes THEN inv
               ELSE [inv EXCEPT ![t] = op \in Fallible /\ Invalid(op, a)]
     /\ sticky' = IF m.sticky /\ failed
                  THEN [sticky EXCEPT ![t] = errno'[t]] ELSE sticky

\* A step of another process: the calls before and after it are not adjacent.
ObserveEnv ==
  /\ armed' = NoArm
  /\ scen' = NoArm
  /\ UNCHANGED <<pend, inv, sticky>>

\* The shell starts in the session and group of the process that started
\* it, or as the leader of a session of its own; no child is forked yet.
Init ==
  /\ \E s \in {Leader, Self} :
       /\ sid = [p \in Procs |-> IF p = Leader THEN Leader ELSE s]
       /\ pgid = [p \in Procs |->
                    IF p = Leader THEN Leader ELSE IF p = Self THEN s ELSE 0]
       /\ fg = [x \in Terms |-> IF x = "ctty" THEN s ELSE Leader]
  /\ errno = [t \in Threads |-> 0]
  /\ last = NoCall
  /\ armed = NoArm
  /\ scen = NoArm
  /\ pend = [t \in Threads |-> 0]
  /\ inv = [t \in Threads |-> FALSE]
  /\ sticky = [t \in Threads |-> 0]

\* One call by thread t.
ThreadCall(m, t) ==
  \/ \E fd \in Fds, pgrp \in PgidArgs :
       ptctl_tcsetpgrp(t, fd, pgrp) /\ Observe(m, t, "tcsetpgrp", fd, pgrp)
  \/ \E fd \in Fds :
       ptctl_tcgetpgrp(t, fd) /\ Observe(m, t, "tcgetpgrp", fd, 0)
  \/ \E pid \in PidArgs, pgid_ \in PgidArgs :
       ptctl_setpgid(t, pid, pgid_) /\ Observe(m, t, "setpgid", pid, pgid_)
  \/ ptctl_getpgrp(t) /\ Observe(m, t, "getpgrp", 0, 0)
  \/ \E pid \in PidArgs :
       ptctl_getpgid(t, pid) /\ Observe(m, t, "getpgid", pid, 0)
  \/ ptctl_get_errno(t) /\ Observe(m, t, "get_errno", 0, 0)

EnvStep == Environment /\ ObserveEnv

\* One calling thread while children come and go; the observer of call pairs.
Watch == [pairs |-> TRUE, codes |-> FALSE, sticky |-> FALSE]
Next == ThreadCall(Watch, "t1") \/ EnvStep
Spec == Init /\ [][Next]_vars

\* One calling thread and no other process: what one call after another
\* does.  Every failure code ever left is remembered.
WatchSticky == [pairs |-> FALSE, codes |-> TRUE, sticky |-> TRUE]
NextAlone == ThreadCall(WatchSticky, "t1")
SpecAlone == Init /\ [][NextAlone]_vars

\* Two calling threads in every interleaving; the observer of failure codes.
WatchCodes == [pairs |-> FALSE, codes |-> TRUE, sticky |-> FALSE]
NextThreads == \E t \in Threads : ThreadCall(WatchCodes, t)
SpecThreads == Init /\ [][NextThreads]_vars

(* ------------------------------------------------------------------ *)
(* Properties.                                                        *)
(* A step whose last' names an operation is a call of that operation  *)
(* by thread last'.t that returned last'.ret; its arguments are the   *)
(* ones for which the operation's action holds of the step.           *)
(* ------------------------------------------------------------------ *)
\* What a call left behind, in the shape of a primitive's outcome.
Result == [ret |-> last'.ret, pgid |-> pgid', fg |-> fg', errno |-> errno'[last'.t]]
Setters == {"tcsetpgrp", "setpgid"}
Getters == {"tcgetpgrp", "getpgrp", "getpgid", "get_errno"}

\* C1: a fallible operation called with a closed descriptor or a nonexistent
\* pid returns -1, and the GetLastError that is the thread's next call
\* returns a non-zero code.
C1_InvalidArgumentFails ==
  /\ (last.op \in Fallible /\ inv[last.t]) => last.ret = -1
  /\ scen.op = "invalid_errno" => (last.op = "get_errno" /\ last.ret # 0)

C1_Witness ==
  /\ scen.op = "invalid_errno"
  /\ last.op = "get_errno"
  /\ last.ret \in {EBADF, ESRCH}

\* C2 as stated: GetProcessGroupOf(pid) right after a SetProcessGroup(pid, pgid)
\* that took effect returns pgid, for every pgid.
C2_GetReturnsPgidArgument ==
  scen.op = "getpgid" => last.ret = scen.b

\* C2 as amended: GetProcessGroupOf(pid) right after a SetProcessGroup(pid, pgid)
\* that returned 0 returns pgid when pgid # 0, and the id of the process pid
\* names when pgid = 0; and SetProcessGroup(P, P) by a process P that leads no
\* group returns 0 and makes P the group of P.
C2_GetReturnsGroupSet ==
  [][ /\ scen'.op = "getpgid" =>
           last'.ret = (IF scen'.b = 0 THEN Target(scen'.a) ELSE scen'.b)
      /\ (last'.op = "setpgid" /\ pgid[Self] # Self
            /\ ptctl_setpgid(last'.t, Self, Self)) =>
           (last'.ret = 0 /\ pgid'[Self] = Self) ]_vars

C2_Witness ==
  /\ scen.op = "getpgid"
  /\ scen.a = Self
  /\ scen.b = Self
  /\ last.ret = Self
  /\ sid[Self] = Leader

\* C3: GetTerminalForegroundGroup(fd) right after a SetTerminalForegroundGroup(fd,
\* pgrp) that the system accepted returns pgrp.
C3_GetReturnsForegroundSet ==
  scen.op = "tcgetpgrp" => last.ret = scen.b

C3_Witness ==
  /\ scen.op = "tcgetpgrp"
  /\ scen.b \in Children
  /\ last.ret = scen.b

\* C4 as stated: once an operation of the thread has failed, GetLastError
\* returns the code the latest failing operation left, whatever succeeded since.
C4_ErrnoSurvivesSuccess ==
  (last.op = "get_errno" /\ sticky[last.t] # 0) => last.ret = sticky[last.t]

\* C4 as amended: GetLastError returns the code the thread's latest failing
\* operation left as long as no other operation of the thread has succeeded
\* since (GetLastError itself may have been called in between).
C4_ErrnoOfLatestFailure ==
  (last.op = "get_errno" /\ pend[last.t] # 0) => last.ret = pend[last.t]

C4_Witness ==
  /\ last.op = "get_errno"
  /\ pend[last.t] = ENOTTY
  /\ last.ret = ENOTTY

\* C5: a call on one thread, failing or not, leaves what GetLastError returns
\* on every other thread unchanged.
C5_ErrnoIsThreadLocal ==
  [][ last'.op # "none" =>
        \A u \in Threads \ {last'.t} : errno'[u] = errno[u] ]_vars

C5_Witness ==
  /\ last.t = "t2"
  /\ last.ret = -1
  /\ errno["t2"] = ESRCH
  /\ errno["t1"] = EBADF

\* C6: GetOwnProcessGroup returns the calling process's current group id,
\* a non-negative number, never -1.
C6_OwnGroupReported ==
  last.op = "getpgrp" => (last.ret = pgid[Self] /\ last.ret >= 0)

C6_Witness ==
  /\ last.op = "getpgrp"
  /\ sid[Self] = Leader
  /\ last.ret = Self

\* The terminal of the fd of the set call just made, the process its pid
\* names: the observer holds the arguments of a set call that returned 0,
\* and a set call that returned -1 may change nothing at all.
SetTerminal == IF armed'.op = "tcgetpgrp" THEN {FdTerm(armed'.a)} ELSE {}
SetProcess == IF armed'.op = "getpgid" THEN {Target(armed'.a)} ELSE {}

\* C7: the four reading operations leave every process's group and every
\* terminal's foreground group as they were, GetLastError leaves errno as
\* well (two in a row return the same); SetTerminalForegroundGroup changes at
\* most the foreground group of fd's terminal, SetProcessGroup at most the
\* group of the process pid names.
C7_NoOtherEffect ==
  [][ /\ last'.op \in Getters => (pgid' = pgid /\ fg' = fg /\ sid' = sid)
      /\ last'.op = "get_errno" => errno' = errno
      /\ (last'.op = "get_errno" /\ last.op = "get_errno" /\ last'.t = last.t)
           => last'.ret = last.ret
      /\ last'.op = "tcsetpgrp" =>
           /\ pgid' = pgid /\ sid' = sid
           /\ \A x \in Terms \ SetTerminal : fg'[x] = fg[x]
      /\ last'.op = "setpgid" =>
           /\ fg' = fg /\ sid' = sid
           /\ \A p \in Procs \ SetProcess : pgid'[p] = pgid[p] ]_vars

C7_Witness ==
  /\ last.op = "tcsetpgrp"
  /\ last.ret = 0
  /\ fg["ctty"] \in Children
  /\ fg["other"] = Leader

\* C8: every operation leaves exactly what one direct call of its primitive
\* with the same arguments leaves: the value returned, the kernel state and the
\* thread's errno are an outcome of the primitive, and nothing else changes.
C8_ForwardsVerbatim ==
  [][ /\ last'.op # "none" =>
           /\ sid' = sid
           /\ \A u \in Threads \ {last'.t} : errno'[u] = errno[u]
      /\ last'.op = "tcsetpgrp" =>
           \A fd \in Fds, pgrp \in PgidArgs :
             ptctl_tcsetpgrp(last'.t, fd, pgrp) =>
               Result \in tcsetpgrp(last'.t, fd, pgrp)
      /\ last'.op = "tcgetpgrp" =>
           \A fd \in Fds :
             ptctl_tcgetpgrp(last'.t, fd) => Result \in tcgetpgrp(last'.t, fd)
      /\ last'.op = "setpgid" =>
           \A pid \in PidArgs, pgid_ \in PgidArgs :
             ptctl_setpgid(last'.t, pid, pgid_) =>
               Result \in setpgid(last'.t, pid, pgid_)
      /\ last'.op = "getpgrp" => Result \in getpgrp(last'.t)
      /\ last'.op = "getpgid" =>
           \A pid \in PidArgs :
             ptctl_getpgid(last'.t, pid) => Result \in getpgid(last'.t, pid)
      /\ last'.op = "get_errno" =>
           Result = [ret |-> errno[last'.t], pgid |-> pgid, fg |-> fg,
                     errno |-> errno[last'.t]] ]_vars

C8_Witness ==
  /\ last.op = "setpgid"
  /\ last.ret = -1
  /\ errno[last.t] = EPERM
  /\ pgid[Self] = Self
  /\ sid[Self] = Self

\* C9: the two setting operations return 0 or -1, the two fallible reading
\* operations a group id >= 0 or -1.
C9_SentinelOrSuccess ==
  /\ last.op \in Setters => last.ret \in {0, -1}
  /\ last.op \in {"tcgetpgrp", "getpgid"} => last.ret >= -1

C9_Witness ==
  /\ last.op = "tcsetpgrp"
  /\ last.ret = -1
  /\ errno[last.t] = EBADF

\* C10: a setting operation that returns -1 has left every process's group
\* and every terminal's foreground group as they were.
C10_FailureChangesNothing ==
  [][ (last'.op \in Setters /\ last'.ret = -1) =>
        (pgid' = pgid /\ fg' = fg /\ sid' = sid) ]_vars

C10_Witness ==
  /\ last.op = "setpgid"
  /\ last.ret = -1
  /\ errno[last.t] = EACCES
  /\ \E c \in Children : pgid[c] = Self /\ pgid[Self] = Self

====
